---- MODULE Spec2Model ----
(***************************************************************************)
(* linc_convert.modalities.df.single_slice.convert: the conversion of a    *)
(* JPEG2000 codestream into a Zarr pyramid, one array per resolution       *)
(* level, followed by the OME-Zarr multiscales attribute and, for the      *)
(* nifti-zarr variant, the "nifti" header array.                           *)
(*                                                                         *)
(* The destination store is a record [group, arrays, multiscales].  An     *)
(* array keeps its shape and chunks and the log of the slice assignments   *)
(* made to it; the element stored at an index is derived from that log     *)
(* (ElementAt).  Floating-point values are modelled as normalised          *)
(* fractions <<numerator, denominator>>.                                   *)
(***************************************************************************)
EXTENDS Integers, Sequences, FiniteSets, TLC

VARIABLES
    inp,        \* the arguments of convert and the codestream behind `inp`
    pc,         \* the position of the run inside convert
    status,     \* "running", "done" or "failed"
    err,        \* the exception that ended a failed run, "" otherwise
    nii,        \* the local nii after line 96
    vx,         \* <<vxw, vxh>> after line 102
    level,      \* the loop variable of line 121
    ti, tj,     \* the loop variables i, j of lines 132-133
    store,      \* the destination store at path `out`
    fresh,      \* the store the same run builds at a destination that was empty
    prior,      \* the store as the run found it
    hdr_shape,  \* the local shape of lines 204-206
    run         \* the number of the run on this destination

vars == <<inp, pc, status, err, nii, vx, level, ti, tj, store, fresh, prior, hdr_shape, run>>

(***************************************************************************)
(* Bounds of the model.                                                    *)
(***************************************************************************)
MaxDim == 3        \* level-0 height and width range over 1..MaxDim
MaxLevels == 2     \* num_res ranges over 1..MaxLevels
MaxLoad == 3       \* max_load ranges over None and 1..MaxLoad
MaxRuns == 2       \* runs of convert on the same destination

(***************************************************************************)
(* Program constants.                                                      *)
(***************************************************************************)
None == -1                  \* max_load is None
DefaultChunk == 1024        \* chunk: int = 1024
DefaultMaxLoad == 16384     \* max_load: int = 16384
NiftiHeaderSize == 540      \* len(Nifti2Header().structarr.tobytes())

Min(a, b) == IF a < b THEN a ELSE b
Max(a, b) == IF a > b THEN a ELSE b

(***************************************************************************)
(* Floats as normalised fractions.                                         *)
(***************************************************************************)
RECURSIVE GCD(_, _)
GCD(a, b) == IF b = 0 THEN a ELSE GCD(b, a % b)

Frac(n, d) == LET g == GCD(IF n < 0 THEN -n ELSE n, d)
              IN  IF g = 0 THEN <<0, 1>> ELSE <<n \div g, d \div g>>
FMul(a, b) == Frac(a[1] * b[1], a[2] * b[2])
FSub(a, b) == Frac(a[1] * b[2] - b[1] * a[2], a[2] * b[2])
FOne == <<1, 1>>
FZero == <<0, 1>>
FHalf == <<1, 2>>

\* [x] * n
Repeat(x, n) == [k \in 1..n |-> x]
Reversed(s) == [k \in 1..Len(s) |-> s[Len(s) + 1 - k]]

\* linc_convert.utils.math.ceildiv
ceildiv(a, b) == (a + b - 1) \div b

RECURSIVE Pow2(_)
Pow2(n) == IF n = 0 THEN 1 ELSE 2 * Pow2(n - 1)

\* str(n) of a non-negative int
Digit(d) == SubSeq("0123456789", d + 1, d + 1)
RECURSIVE str(_)
str(n) == IF n < 10 THEN Digit(n) ELSE str(n \div 10) \o Digit(n % 10)

(***************************************************************************)
(* The codestream.  j2k.shape is (H, W) or (H, W, C); a level view has the *)
(* channels first and the plane decimated by 2^level, rounded up.          *)
(***************************************************************************)
j2k_ndim(cs) == IF cs.nchan = 0 THEN 2 ELSE 3
j2k_lead(cs) == IF cs.nchan = 0 THEN <<>> ELSE <<cs.nchan>>
WrappedJ2K_shape(cs, lvl) ==
    j2k_lead(cs) \o <<ceildiv(cs.H, Pow2(lvl)), ceildiv(cs.W, Pow2(lvl))>>
\* the element of level view lvl at index idx
subdat(lvl, idx) == <<lvl, idx>>

\* every index of an array of the given shape
RECURSIVE Indices(_)
Indices(shape) ==
    IF Len(shape) = 0 THEN {<<>>}
    ELSE {<<k>> \o rest : k \in 0..(shape[1] - 1),
                          rest \in Indices(SubSeq(shape, 2, Len(shape)))}

(***************************************************************************)
(* Slicing.  A region is a sequence of half-open ranges <<lo, hi>>, one    *)
(* per dimension.                                                          *)
(***************************************************************************)
\* a:b on a dimension of length n, 0 <= a, 0 <= b
PySlice(a, b, n) == LET lo == Min(a, n)
                        hi == Min(b, n)
                    IN  <<lo, Max(lo, hi)>>
\* the Ellipsis: every leading dimension in full
Ellipsis(shape, ntrail) == [k \in 1..(Len(shape) - ntrail) |-> <<0, shape[k]>>]
FullRegion(shape) == Ellipsis(shape, 0)
InRegion(idx, reg) == \A k \in 1..Len(reg) : reg[k][1] <= idx[k] /\ idx[k] < reg[k][2]

\* a stop of (i+1)*max_load + 1: the tile takes the first row and column of the next
TileRegion_inclusive(shape, i, j, max_load) ==
    LET n == Len(shape)
    IN  [k \in 1..(n - 2) |-> <<0, shape[k]>>]
        \o <<PySlice(i * max_load, Min((i + 1) * max_load + 1, shape[n - 1]), shape[n - 1]),
             PySlice(j * max_load, Min((j + 1) * max_load + 1, shape[n]), shape[n])>>

\* [..., i*max_load:min((i+1)*max_load, shape[-2]),
\*       j*max_load:min((j+1)*max_load, shape[-1])]
TileRegion(shape, i, j, max_load) ==
    LET n == Len(shape)
    IN  Ellipsis(shape, 2)
        \o <<PySlice(i * max_load, Min((i + 1) * max_load, shape[n - 1]), shape[n - 1]),
             PySlice(j * max_load, Min((j + 1) * max_load, shape[n]), shape[n])>>

(***************************************************************************)
(* The store.                                                              *)
(***************************************************************************)
NoArrays == [k \in {} |-> 0]
NoHeader == [len |-> 0, data_shape |-> <<>>, orientation |-> "", centered |-> FALSE]
EmptyStore == [group |-> FALSE, arrays |-> NoArrays, multiscales |-> <<>>]

\* the group opened in place, what the path held kept
zarr_group_append(s) == [s EXCEPT !.group = TRUE]

\* zarr.group(store=omz, overwrite=True): whatever the path held is removed
zarr_group(s) == [group |-> TRUE, arrays |-> NoArrays, multiscales |-> <<>>]

\* the array cut down to one chunk
create_dataset_cropped(s, key, shape, chunks) ==
    [s EXCEPT !.arrays = (key :> [shape |-> [k \in 1..Len(shape) |-> Min(shape[k], chunks[k])],
                                  chunks |-> chunks,
                                  writes |-> <<>>, data |-> NoHeader]) @@ @]

\* omz.create_dataset(key, shape=shape, **opt)
create_dataset(s, key, shape, chunks) ==
    [s EXCEPT !.arrays = (key :> [shape |-> shape, chunks |-> chunks,
                                  writes |-> <<>>, data |-> NoHeader]) @@ @]

\* array[dst] = subdat[src] on the array at key, subdat the view of level lvl
assign(s, key, dst, lvl, src) ==
    [s EXCEPT !.arrays[key].writes = Append(@, [dst |-> dst, lvl |-> lvl, src |-> src])]

\* the element an array holds at idx: that of the last assignment covering it
Unwritten == <<-1, <<>>>>
ElementAt(arr, idx) ==
    LET hits == {k \in 1..Len(arr.writes) : InRegion(idx, arr.writes[k].dst)}
    IN  IF hits = {} THEN Unwritten
        ELSE LET w == arr.writes[CHOOSE k \in hits : \A m \in hits : m <= k]
             IN  subdat(w.lvl, [d \in 1..Len(idx) |-> idx[d] - w.dst[d][1] + w.src[d][1]])
Content(arr) == [idx \in Indices(arr.shape) |-> ElementAt(arr, idx)]

\* omz.create_dataset("nifti", data=header, shape=shape, **opt): the call names
\* the header bytes and a shape that is not theirs.  zarr.creation.array takes
\* the shape of the data; a store that creates what it is asked for takes the
\* requested one.  The shapes the array can end up with:
nifti_shapes(header, shape) == {<<header.len>>, shape}
create_nifti(s, header, shape) ==
    [s EXCEPT !.arrays = ("nifti" :> [shape |-> shape, chunks |-> <<header.len>>,
                                      writes |-> <<>>, data |-> header]) @@ @]

(***************************************************************************)
(* Lines 119-127: the shape of a level and the branch of the copy.         *)
(***************************************************************************)
nblevel(cs) == cs.nblevel
has_channel(cs) == j2k_ndim(cs) - 2
Chunks(cs, chunk) == j2k_lead(cs) \o <<chunk, chunk>>
Last(s) == s[Len(s)]
Last2(s) == s[Len(s) - 1]
\* <= in place of <
WholePlane_inclusive(shape, max_load) ==
    max_load = None \/ (Last2(shape) <= max_load /\ Last(shape) <= max_load)
WholePlane(shape, max_load) ==
    max_load = None \/ (Last2(shape) < max_load /\ Last(shape) < max_load)
\* shape[-2] // max_load in place of ceildiv
ni_floor(shape, max_load) == Max(1, Last2(shape) \div max_load)
ni(shape, max_load) == ceildiv(Last2(shape), max_load)
nj(shape, max_load) == ceildiv(Last(shape), max_load)

(***************************************************************************)
(* Lines 148-193: the multiscales attribute.                               *)
(***************************************************************************)
Axes(hc) == IF hc # 0 THEN <<"c", "y", "x">> ELSE <<"y", "x">>
SpatialShape(s, n) == LET sh == s.arrays[str(n)].shape IN <<Last2(sh), Last(sh)>>
\* vxw on the rows and vxh on the columns
LevelScale_swapped(hc, shape0, shape, vxw, vxh) ==
    Repeat(FOne, hc) \o <<FMul(Frac(shape0[1], shape[1]), vxw),
                          FMul(Frac(shape0[2], shape[2]), vxh)>>
LevelScale(hc, shape0, shape, vxw, vxh) ==
    Repeat(FOne, hc) \o <<FMul(Frac(shape0[1], shape[1]), vxh),
                          FMul(Frac(shape0[2], shape[2]), vxw)>>
LevelTranslation(hc, shape0, shape, vxw, vxh) ==
    Repeat(FZero, hc)
    \o <<FMul(FMul(FSub(Frac(shape0[1], shape[1]), FOne), vxh), FHalf),
         FMul(FMul(FSub(Frac(shape0[2], shape[2]), FOne), vxw), FHalf)>>
Dataset(s, n, hc, vxw, vxh) ==
    [path |-> str(n),
     scale |-> LevelScale(hc, SpatialShape(s, 0), SpatialShape(s, n), vxw, vxh),
     translation |-> LevelTranslation(hc, SpatialShape(s, 0), SpatialShape(s, n), vxw, vxh)]
Multiscales(s, n_levels, hc, vxw, vxh) ==
    <<[version |-> "0.4",
       axes |-> Axes(hc),
       datasets |-> [k \in 1..n_levels |-> Dataset(s, k - 1, hc, vxw, vxh)],
       type |-> "jpeg2000",
       name |-> "",
       scale |-> Repeat(FOne, 2 + hc)]>>
set_multiscales(s, m) == [s EXCEPT !.multiscales = m]

(***************************************************************************)
(* Lines 204-217: the header.                                              *)
(***************************************************************************)
\* the singleton dimensions left out
HeaderShape_plain(s, hc) == Reversed(s.arrays["0"].shape)
HeaderShape(s, hc) ==
    LET shape == Reversed(s.arrays["0"].shape)
    IN  IF hc # 0 THEN SubSeq(shape, 1, 2) \o <<1, 1>> \o SubSeq(shape, 3, Len(shape))
        ELSE shape
\* linc_convert.utils.orientation.orientation_to_affine: the aliases, and the
\* codes it accepts
Letters == {"L", "R", "A", "P", "I", "S"}
AxisOf(l) == IF l \in {"L", "R"} THEN 0 ELSE IF l \in {"A", "P"} THEN 1 ELSE 2
OrientationCode(o) ==
    IF o = "coronal" THEN "LI" ELSE IF o = "axial" THEN "LP"
    ELSE IF o = "sagittal" THEN "PI" ELSE o
RecognizedOrientation(o) ==
    LET c == OrientationCode(o)
    IN  /\ Len(c) = 2
        /\ SubSeq(c, 1, 1) \in Letters
        /\ SubSeq(c, 2, 2) \in Letters
        /\ AxisOf(SubSeq(c, 1, 1)) # AxisOf(SubSeq(c, 2, 2))
Header(shape, orientation, center) ==
    [len |-> NiftiHeaderSize, data_shape |-> shape,
     orientation |-> OrientationCode(orientation), centered |-> center]

(***************************************************************************)
(* The inputs.                                                             *)
(***************************************************************************)
Channels == {0, 2}
Geometries == [H : 1..MaxDim, W : 1..MaxDim, nblevel : 1..MaxLevels,
               nchan : Channels, max_load : {None} \cup (1..MaxLoad)]
Options ==
    { [nii |-> FALSE, out_nii |-> FALSE, orientation |-> "coronal", center |-> TRUE,
       chunk |-> DefaultChunk],
      [nii |-> TRUE, out_nii |-> FALSE, orientation |-> "coronal", center |-> TRUE,
       chunk |-> DefaultChunk],
      [nii |-> FALSE, out_nii |-> TRUE, orientation |-> "LI", center |-> FALSE,
       chunk |-> 1],
      [nii |-> TRUE, out_nii |-> FALSE, orientation |-> "XX", center |-> TRUE,
       chunk |-> DefaultChunk],
      [nii |-> FALSE, out_nii |-> FALSE, orientation |-> "XX", center |-> TRUE,
       chunk |-> 1] }
\* <<vxw, vxh>> in micrometers
PixelSizes == { <<FHalf, FHalf>>, <<FHalf, <<3, 2>>>> }
Sound == [has_res |-> TRUE, opt_ok |-> TRUE]
Faults == { [has_res |-> FALSE, opt_ok |-> TRUE], [has_res |-> TRUE, opt_ok |-> FALSE],
            [has_res |-> FALSE, opt_ok |-> FALSE] }
Input(g, o, v, f) ==
    [H |-> g.H, W |-> g.W, nblevel |-> g.nblevel, nchan |-> g.nchan,
     max_load |-> g.max_load, nii |-> o.nii, out_nii |-> o.out_nii,
     orientation |-> o.orientation, center |-> o.center, chunk |-> o.chunk,
     pixelsize |-> v, has_res |-> f.has_res, opt_ok |-> f.opt_ok]
Geometry(h, w, n, c, m) == [H |-> h, W |-> w, nblevel |-> n, nchan |-> c, max_load |-> m]
FaultyInputs ==
    { Input(Geometry(2, 1, 2, 0, None), o, <<FHalf, FHalf>>, f) : o \in Options, f \in Faults }
Inputs ==
    { Input(g, o, v, Sound) : g \in Geometries, o \in Options, v \in PixelSizes }
    \cup FaultyInputs

(***************************************************************************)
(* convert, statement by statement.                                        *)
(***************************************************************************)
Start(i) ==
    /\ inp = i
    /\ pc = "parse"
    /\ status = "running"
    /\ err = ""
    /\ nii = FALSE
    /\ vx = <<FZero, FZero>>
    /\ level = 0
    /\ ti = 0
    /\ tj = 0
    /\ hdr_shape = <<>>

Init ==
    /\ \E i \in Inputs : Start(i)
    /\ store = EmptyStore
    /\ fresh = EmptyStore
    /\ prior = EmptyStore
    /\ run = 1

Fail(e) ==
    /\ status' = "failed"
    /\ err' = e

\* lines 92-99
ParseOptions ==
    /\ status = "running" /\ pc = "parse"
    /\ nii' = (inp.nii \/ inp.out_nii)
    /\ IF inp.opt_ok
       THEN pc' = "pixelsize" /\ UNCHANGED <<status, err>>
       ELSE Fail("ConfigError") /\ UNCHANGED pc
    /\ UNCHANGED <<inp, vx, level, ti, tj, store, fresh, prior, hdr_shape, run>>

\* lines 101-102
GetPixelSize ==
    /\ status = "running" /\ pc = "pixelsize"
    /\ IF inp.has_res
       THEN vx' = inp.pixelsize /\ pc' = "group" /\ UNCHANGED <<status, err>>
       ELSE Fail("MetadataError") /\ UNCHANGED <<pc, vx>>
    /\ UNCHANGED <<inp, nii, level, ti, tj, store, fresh, prior, hdr_shape, run>>

\* lines 105-120
PrepareGroup ==
    /\ status = "running" /\ pc = "group"
    /\ store' = zarr_group(store)
    /\ fresh' = zarr_group(fresh)
    /\ level' = 0
    /\ pc' = "level"
    /\ UNCHANGED <<inp, status, err, nii, vx, ti, tj, prior, hdr_shape, run>>

\* lines 121-127
CreateLevel ==
    /\ status = "running" /\ pc = "level" /\ level < nblevel(inp)
    /\ LET shape == WrappedJ2K_shape(inp, level)
           key == str(level)
       IN  IF key \in DOMAIN store.arrays
           THEN Fail("ContainsArrayError") /\ UNCHANGED <<pc, store, fresh>>
           ELSE /\ store' = create_dataset(store, key, shape, Chunks(inp, inp.chunk))
                /\ fresh' = create_dataset(fresh, key, shape, Chunks(inp, inp.chunk))
                /\ pc' = IF WholePlane(shape, inp.max_load) THEN "whole" ELSE "tile"
                /\ UNCHANGED <<status, err>>
    /\ ti' = 0
    /\ tj' = 0
    /\ UNCHANGED <<inp, nii, vx, level, prior, hdr_shape, run>>

\* line 128
CopyWhole ==
    /\ status = "running" /\ pc = "whole"
    /\ LET shape == WrappedJ2K_shape(inp, level)
       IN  /\ store' = assign(store, str(level), FullRegion(store.arrays[str(level)].shape),
                              level, FullRegion(shape))
           /\ fresh' = assign(fresh, str(level), FullRegion(fresh.arrays[str(level)].shape),
                              level, FullRegion(shape))
    /\ level' = level + 1
    /\ pc' = "level"
    /\ UNCHANGED <<inp, status, err, nii, vx, ti, tj, prior, hdr_shape, run>>

\* lines 130-144, one (i, j) of the loops
CopyTile ==
    /\ status = "running" /\ pc = "tile"
    /\ LET shape == WrappedJ2K_shape(inp, level)
           reg == TileRegion(shape, ti, tj, inp.max_load)
       IN  /\ store' = assign(store, str(level), reg, level, reg)
           /\ fresh' = assign(fresh, str(level), reg, level, reg)
           /\ IF tj + 1 < nj(shape, inp.max_load)
              THEN tj' = tj + 1 /\ UNCHANGED <<ti, level, pc>>
              ELSE IF ti + 1 < ni(shape, inp.max_load)
              THEN ti' = ti + 1 /\ tj' = 0 /\ UNCHANGED <<level, pc>>
              ELSE level' = level + 1 /\ pc' = "level" /\ UNCHANGED <<ti, tj>>
    /\ UNCHANGED <<inp, status, err, nii, vx, prior, hdr_shape, run>>

\* line 121, the loop is over
LevelsWritten == pc = "level" /\ level = nblevel(inp)

\* the attribute left for after the header
WriteMetadata_late ==
    /\ status = "running" /\ LevelsWritten
    /\ IF nii
       THEN pc' = "header" /\ UNCHANGED <<status, store, fresh>>
       ELSE /\ pc' = "return" /\ status' = "done"
            /\ store' = set_multiscales(store,
                    Multiscales(store, nblevel(inp), has_channel(inp), vx[1], vx[2]))
            /\ fresh' = set_multiscales(fresh,
                    Multiscales(fresh, nblevel(inp), has_channel(inp), vx[1], vx[2]))
    /\ UNCHANGED <<inp, err, nii, vx, level, ti, tj, prior, hdr_shape, run>>

\* lines 147-198
WriteMetadata ==
    /\ status = "running" /\ LevelsWritten
    /\ store' = set_multiscales(store,
                    Multiscales(store, nblevel(inp), has_channel(inp), vx[1], vx[2]))
    /\ fresh' = set_multiscales(fresh,
                    Multiscales(fresh, nblevel(inp), has_channel(inp), vx[1], vx[2]))
    /\ IF nii
       THEN pc' = "header" /\ UNCHANGED status
       ELSE pc' = "return" /\ status' = "done"
    /\ UNCHANGED <<inp, err, nii, vx, level, ti, tj, prior, hdr_shape, run>>

\* lines 204-227
WriteHeader ==
    /\ status = "running" /\ pc = "header"
    /\ LET shape == HeaderShape(store, has_channel(inp))
       IN  /\ hdr_shape' = shape
           /\ IF RecognizedOrientation(inp.orientation)
              THEN \E sh \in nifti_shapes(Header(shape, inp.orientation, inp.center), shape) :
                      /\ store' = create_nifti(store,
                                      Header(shape, inp.orientation, inp.center), sh)
                      /\ fresh' = create_nifti(fresh,
                                      Header(shape, inp.orientation, inp.center), sh)
                      /\ pc' = "return"
                      /\ status' = "done"
                      /\ UNCHANGED err
              ELSE Fail("ConfigError") /\ UNCHANGED <<pc, store, fresh>>
    /\ UNCHANGED <<inp, nii, vx, level, ti, tj, prior, run>>

\* a write to the destination raises (disk full, path not writable)
StoreWriteFails ==
    /\ status = "running"
    /\ pc \in {"group", "level", "whole", "tile", "header"}
    /\ Fail("StoreWriteError")
    /\ UNCHANGED <<inp, pc, nii, vx, level, ti, tj, store, fresh, prior, hdr_shape, run>>

Next ==
    \/ ParseOptions
    \/ GetPixelSize
    \/ PrepareGroup
    \/ CreateLevel
    \/ CopyWhole
    \/ CopyTile
    \/ WriteMetadata
    \/ WriteHeader
    \/ StoreWriteFails

Spec == Init /\ [][Next]_vars

(***************************************************************************)
(* The codestreams of the documented scenarios: two levels of 4096 x 4096  *)
(* at 0.5 micrometers, three levels of (3, 5000, 7000), and a pyramid deep *)
(* enough for a two-digit level key.                                       *)
(***************************************************************************)
ScenarioGeometries ==
    { Geometry(4096, 4096, 2, 0, m) : m \in {None, DefaultMaxLoad, 2048, 1024} }
    \cup { Geometry(5000, 7000, 3, 3, m) : m \in {DefaultMaxLoad, 2048} }
    \cup { Geometry(2048, 1024, 11, 0, None) }
ScenarioInputs ==
    { Input(g, o, v, Sound) : g \in ScenarioGeometries, o \in Options, v \in PixelSizes }

InitScenario ==
    /\ \E i \in Inputs \cup ScenarioInputs : Start(i)
    /\ store = EmptyStore
    /\ fresh = EmptyStore
    /\ prior = EmptyStore
    /\ run = 1

SpecScenario == InitScenario /\ [][Next]_vars

(***************************************************************************)
(* convert run again on the destination an earlier run left, whether that  *)
(* run returned or raised.                                                 *)
(***************************************************************************)
RestartGeometries ==
    { Geometry(2, 1, 2, 0, None), Geometry(1, 2, 1, 2, 1),
      Geometry(2, 2, 1, 0, 2), Geometry(2, 3, 2, 2, 2) }
RestartInputs ==
    { Input(g, o, <<FHalf, <<3, 2>>>>, Sound) : g \in RestartGeometries, o \in Options }
    \cup FaultyInputs

InitRestart ==
    /\ \E i \in RestartInputs : Start(i)
    /\ store = EmptyStore
    /\ fresh = EmptyStore
    /\ prior = EmptyStore
    /\ run = 1

Restart ==
    /\ status # "running"
    /\ run < MaxRuns
    /\ \E i \in RestartInputs :
          /\ inp' = i
          /\ pc' = "parse"
          /\ status' = "running"
          /\ err' = ""
          /\ nii' = FALSE
          /\ vx' = <<FZero, FZero>>
          /\ level' = 0
          /\ ti' = 0
          /\ tj' = 0
          /\ hdr_shape' = <<>>
    /\ prior' = store
    /\ fresh' = EmptyStore
    /\ run' = run + 1
    /\ UNCHANGED store

NextRestart ==
    \/ Next
    \/ Restart

SpecRestart == InitRestart /\ [][NextRestart]_vars

(***************************************************************************)
(* What the claims speak of.                                               *)
(***************************************************************************)
Levels == 0..(nblevel(inp) - 1)
\* the levels whose copy step has finished
CopiedLevels == {l \in Levels : l < level}
ViewShape(l) == WrappedJ2K_shape(inp, l)
ViewH(l) == Last2(ViewShape(l))
ViewW(l) == Last(ViewShape(l))
\* the least q with q * b >= a
CeilQuotient(a, b) == CHOOSE q \in 0..a : q * b >= a /\ (q - 1) * b < a
\* level l of the run goes through the tiling loop
Tiled(l) == inp.max_load # None /\ ~(ViewH(l) < inp.max_load /\ ViewW(l) < inp.max_load)
\* the array a single whole-plane copy of level view l produces
WholePlaneCopy(l) ==
    [shape |-> ViewShape(l), chunks |-> Chunks(inp, inp.chunk),
     writes |-> <<[dst |-> FullRegion(ViewShape(l)), lvl |-> l,
                   src |-> FullRegion(ViewShape(l))]>>,
     data |-> NoHeader]
Rows(reg) == reg[Len(reg) - 1]
Cols(reg) == reg[Len(reg)]
Overlap(r1, r2) == \A k \in 1..Len(r1) : r1[k][1] < r2[k][2] /\ r2[k][1] < r1[k][2]

\* C1. Tiling equivalence: once the copy step of a level has finished, every
\* element of the destination array is the element of the level view at the
\* same index, for every level shape and every max_load (None or positive), so
\* the content is that of a single whole-plane copy: nothing is left unwritten
\* and nothing comes from another source index.
TilingEquivalence ==
    \A l \in CopiedLevels :
        LET arr == store.arrays[str(l)]
        IN  /\ \A idx \in Indices(ViewShape(l)) : ElementAt(arr, idx) = subdat(l, idx)
            /\ Content(arr) = Content(WholePlaneCopy(l))

\* a level with a channel dimension was copied in several tiles, the last of
\* each row and column clipped
TilingEquivalenceWitness ==
    /\ status = "done"
    /\ inp.nchan > 1
    /\ inp.max_load # None
    /\ ViewH(0) > inp.max_load /\ ViewH(0) % inp.max_load # 0
    /\ ViewW(0) > inp.max_load /\ ViewW(0) % inp.max_load # 0
    /\ Len(store.arrays["0"].writes) > 1
    /\ Content(store.arrays["0"]) = Content(WholePlaneCopy(0))

\* C8 as stated. Whole-plane threshold: a level with H <= max_load and
\* W <= max_load, the boundary H = max_load or W = max_load included, is copied
\* through the untiled branch, and the tiling loop is entered only when a
\* spatial dimension exceeds max_load.
WholePlaneThresholdInclusive ==
    (status = "running" /\ pc \in {"whole", "tile"} /\ inp.max_load # None) =>
        /\ (ViewH(level) <= inp.max_load /\ ViewW(level) <= inp.max_load) => pc = "whole"
        /\ pc = "tile" => (ViewH(level) > inp.max_load \/ ViewW(level) > inp.max_load)

\* C8 as amended. A level is copied through the untiled branch exactly when
\* max_load is None or H < max_load and W < max_load, and the tiling loop is
\* entered exactly when a spatial dimension reaches or exceeds max_load; when
\* neither exceeds it (H <= max_load, W <= max_load, one of them equal) the loop
\* makes a single tile that is the whole plane.
WholePlaneThreshold ==
    (status = "running" /\ pc \in {"whole", "tile"}) =>
        /\ pc = "whole" <=>
              (inp.max_load = None
               \/ (ViewH(level) < inp.max_load /\ ViewW(level) < inp.max_load))
        /\ pc = "tile" <=>
              (inp.max_load # None
               /\ (ViewH(level) >= inp.max_load \/ ViewW(level) >= inp.max_load))
        /\ (pc = "tile" /\ ViewH(level) <= inp.max_load /\ ViewW(level) <= inp.max_load) =>
              /\ ni(ViewShape(level), inp.max_load) = 1
              /\ nj(ViewShape(level), inp.max_load) = 1
              /\ TileRegion(ViewShape(level), 0, 0, inp.max_load) = FullRegion(ViewShape(level))

\* the tiling loop was entered for a plane whose height is max_load and whose
\* width does not exceed it
WholePlaneThresholdWitness ==
    /\ status = "running" /\ pc = "tile"
    /\ ViewH(level) = inp.max_load
    /\ ViewW(level) <= inp.max_load

\* C9. Bounded tiles: for every level and positive max_load, the tiling branch
\* makes exactly ceil(H/max_load) * ceil(W/max_load) tile copies; every tile is
\* non-empty, has at most max_load rows and columns, lies inside the plane, is
\* disjoint from the others, is clipped only when it is the last of its row or
\* column, and takes the leading dimensions in full; and when max_load is set no
\* read of a level view spans more than max_load rows or columns in either
\* branch.
BoundedTiles ==
    \A key \in DOMAIN store.arrays \ {"nifti"} :
        \E l \in Levels :
            /\ key = str(l)
            /\ LET ws == store.arrays[key].writes
                   m == inp.max_load
                   H == ViewH(l)
                   W == ViewW(l)
                   n == Len(ViewShape(l))
               IN  /\ (m # None) => \A k \in 1..Len(ws) :
                           /\ Rows(ws[k].src)[2] - Rows(ws[k].src)[1] <= m
                           /\ Cols(ws[k].src)[2] - Cols(ws[k].src)[1] <= m
                   /\ Tiled(l) =>
                        /\ (l \in CopiedLevels) =>
                              Len(ws) = CeilQuotient(H, m) * CeilQuotient(W, m)
                        /\ \A k \in 1..Len(ws) :
                              LET r == Rows(ws[k].dst)
                                  c == Cols(ws[k].dst)
                              IN  /\ ws[k].src = ws[k].dst
                                  /\ r[1] < r[2] /\ c[1] < c[2]
                                  /\ r[2] - r[1] <= m /\ c[2] - c[1] <= m
                                  /\ 0 <= r[1] /\ r[2] <= H /\ 0 <= c[1] /\ c[2] <= W
                                  /\ r[1] % m = 0 /\ c[1] % m = 0
                                  /\ (r[2] - r[1] < m) => r[2] = H
                                  /\ (c[2] - c[1] < m) => c[2] = W
                                  /\ \A d \in 1..(n - 2) :
                                        ws[k].dst[d] = <<0, ViewShape(l)[d]>>
                        /\ \A j \in 1..Len(ws), k \in 1..Len(ws) :
                              j # k => ~Overlap(ws[j].dst, ws[k].dst)

\* a level with channels went through the tiling loop in several tiles, one of
\* them clipped
BoundedTilesWitness ==
    /\ status = "done"
    /\ inp.nchan > 1
    /\ Tiled(0)
    /\ ViewH(0) % inp.max_load # 0
    /\ Len(store.arrays["0"].writes) = CeilQuotient(ViewH(0), inp.max_load)
                                        * CeilQuotient(ViewW(0), inp.max_load)
    /\ Len(store.arrays["0"].writes) >= 4

Attached == store.multiscales # <<>>
Descriptor == store.multiscales[1]
\* the last two entries of a transformation vector
Spatial(v) == <<v[Len(v) - 1], v[Len(v)]>>
voxelWidth == inp.pixelsize[1]
voxelHeight == inp.pixelsize[2]
ArrayH(n) == Last2(store.arrays[str(n)].shape)
ArrayW(n) == Last(store.arrays[str(n)].shape)
\* every element of the array at key has been written
FullyCopied(key) ==
    \A idx \in Indices(store.arrays[key].shape) :
        ElementAt(store.arrays[key], idx) # Unwritten
DecimalKeys == <<"0", "1", "2", "3", "4", "5", "6", "7", "8", "9", "10", "11", "12">>
Decimal(n) == DecimalKeys[n + 1]
PyramidKeys(s) == DOMAIN s.arrays \ {"nifti"}

\* C2. Geometric invariant: the dataset entry of level n has spatial scale
\* (H0/Hn * voxelHeight, W0/Wn * voxelWidth) and spatial translation
\* ((H0/Hn - 1) * voxelHeight/2, (W0/Wn - 1) * voxelWidth/2); at level 0 the
\* scale is the voxel size and the translation 0; and for shapes (4096, 4096),
\* (2048, 2048) with voxel size (0.5, 0.5) level 1 has scale (1, 1) and
\* translation (0.25, 0.25).
GeometricInvariant ==
    Attached =>
        /\ Len(Descriptor.datasets) = nblevel(inp)
        /\ \A n \in Levels :
              LET ds == Descriptor.datasets[n + 1]
                  H0 == ArrayH(0)
                  W0 == ArrayW(0)
                  Hn == ArrayH(n)
                  Wn == ArrayW(n)
              IN  /\ Spatial(ds.scale) =
                        <<Frac(H0 * voxelHeight[1], Hn * voxelHeight[2]),
                          Frac(W0 * voxelWidth[1], Wn * voxelWidth[2])>>
                  /\ Spatial(ds.translation) =
                        <<Frac((H0 - Hn) * voxelHeight[1], Hn * voxelHeight[2] * 2),
                          Frac((W0 - Wn) * voxelWidth[1], Wn * voxelWidth[2] * 2)>>
                  /\ (n = 0) => /\ Spatial(ds.scale) = <<voxelHeight, voxelWidth>>
                                /\ Spatial(ds.translation) = <<FZero, FZero>>
        /\ (/\ nblevel(inp) = 2
            /\ Spatial(store.arrays["0"].shape) = <<4096, 4096>>
            /\ Spatial(store.arrays["1"].shape) = <<2048, 2048>>
            /\ voxelHeight = <<1, 2>> /\ voxelWidth = <<1, 2>>) =>
              /\ Spatial(Descriptor.datasets[2].scale) = <<FOne, FOne>>
              /\ Spatial(Descriptor.datasets[2].translation) = <<<<1, 4>>, <<1, 4>>>>

\* the documented scenario has been converted
GeometricInvariantWitness ==
    /\ status = "done"
    /\ Attached
    /\ nblevel(inp) = 2
    /\ Spatial(store.arrays["0"].shape) = <<4096, 4096>>
    /\ Spatial(store.arrays["1"].shape) = <<2048, 2048>>
    /\ voxelHeight = <<1, 2>> /\ voxelWidth = <<1, 2>>
    /\ Spatial(Descriptor.datasets[2].scale) = <<FOne, FOne>>

\* C6. Channel-axis handling: with a leading channel dimension of size C > 1
\* the axis list is [c, y, x] and the header data shape, read in array order, is
\* the channel dimension followed by two singleton dimensions and the plane;
\* without one the axis list is [y, x] and the header data shape is the plane's.
\* Every dataset's scale and translation and the group-level scale have as many
\* entries as the axis list.
ChannelAxisHandling ==
    /\ Attached =>
          /\ Descriptor.axes = IF inp.nchan > 1 THEN <<"c", "y", "x">> ELSE <<"y", "x">>
          /\ Len(Descriptor.scale) = Len(Descriptor.axes)
          /\ \A n \in 1..Len(Descriptor.datasets) :
                /\ Len(Descriptor.datasets[n].scale) = Len(Descriptor.axes)
                /\ Len(Descriptor.datasets[n].translation) = Len(Descriptor.axes)
    /\ (hdr_shape # <<>>) =>
          Reversed(hdr_shape) = IF inp.nchan > 1
                                THEN <<inp.nchan, 1, 1, ViewH(0), ViewW(0)>>
                                ELSE <<ViewH(0), ViewW(0)>>
    /\ ("nifti" \in DOMAIN store.arrays) =>
          store.arrays["nifti"].data.data_shape = hdr_shape

\* the header of a codestream with two channels has been written
ChannelAxisHandlingWitness ==
    /\ status = "done"
    /\ inp.nchan = 2
    /\ "nifti" \in DOMAIN store.arrays
    /\ Len(hdr_shape) = 5
    /\ Descriptor.axes = <<"c", "y", "x">>

\* C7. Shape fidelity and level keying: the pyramid arrays are created in
\* increasing level order, keyed by the decimal string of the level, each with
\* the shape of its level view whatever chunk and max_load are; after a
\* successful run there is exactly one per level; and an array, once created,
\* keeps its shape through the writes.
ShapeFidelity ==
    /\ [](/\ (pc \in {"level", "whole", "tile", "header", "return"}) =>
               /\ PyramidKeys(store) =
                     {Decimal(n) : n \in 0..(level - (IF pc \in {"whole", "tile"} THEN 0 ELSE 1))}
               /\ \A n \in Levels :
                     (Decimal(n) \in PyramidKeys(store)) =>
                         store.arrays[Decimal(n)].shape = ViewShape(n)
          /\ (status = "done") => PyramidKeys(store) = {Decimal(n) : n \in Levels})
    /\ [][(pc \in {"level", "whole", "tile", "header"}) =>
             \A k \in DOMAIN store.arrays :
                 /\ k \in DOMAIN store'.arrays
                 /\ store'.arrays[k].shape = store.arrays[k].shape
                 /\ store'.arrays[k].chunks = store.arrays[k].chunks]_vars

\* eleven levels, the last keyed "10", and a level larger than a chunk written
\* in tiles
ShapeFidelityWitness ==
    /\ status = "done"
    /\ \/ /\ nblevel(inp) = 11
          /\ "10" \in DOMAIN store.arrays
          /\ store.arrays["10"].shape = <<2, 1>>
       \/ /\ inp.chunk = 1
          /\ inp.max_load = 2
          /\ store.arrays["0"].shape = <<2, 3, 3>>
          /\ Len(store.arrays["0"].writes) = 4

\* C10. Pipeline ordering: the multiscales attribute is attached only after
\* every level has been created and fully copied, and before the header is
\* built or written; it is attached in every successful run; and a run that a
\* store-write failure ends during level k leaves levels 0..k-1 complete, no
\* multiscales attribute and no header array.
PipelineOrdering ==
    /\ Attached => \A l \in Levels :
                      /\ str(l) \in DOMAIN store.arrays
                      /\ store.arrays[str(l)].shape = ViewShape(l)
                      /\ FullyCopied(str(l))
    /\ (hdr_shape # <<>> \/ "nifti" \in DOMAIN store.arrays) => Attached
    /\ (status = "done") => Attached
    /\ (/\ status = "failed" /\ err = "StoreWriteError"
        /\ pc \in {"level", "whole", "tile"} /\ level < nblevel(inp)) =>
          /\ \A l \in 0..(level - 1) :
                /\ str(l) \in DOMAIN store.arrays
                /\ FullyCopied(str(l))
          /\ ~Attached
          /\ "nifti" \notin DOMAIN store.arrays

\* a store-write failure in the middle of the tiles of level 1
PipelineOrderingWitness ==
    /\ status = "failed" /\ err = "StoreWriteError"
    /\ pc = "tile" /\ level = 1 /\ tj = 1
    /\ FullyCopied("0")
    /\ ~FullyCopied("1")
    /\ ~Attached

\* C5. Restart idempotence: once a run has created the group, the destination
\* holds what the same run builds at an empty destination, whatever an earlier
\* run left there (complete or aborted, with more levels or with the header):
\* no array or attribute of the earlier run survives.
RestartIdempotence ==
    (pc \in {"level", "whole", "tile", "header", "return"}) => store = fresh

\* a second run without the header has returned on a destination where the
\* first left more levels, the attribute and the header array
RestartIdempotenceWitness ==
    /\ run = 2
    /\ status = "done"
    /\ ~nii
    /\ "nifti" \in DOMAIN prior.arrays
    /\ prior.multiscales # <<>>
    /\ Cardinality(PyramidKeys(prior)) > nblevel(inp)
    /\ store = fresh

\* C3 as stated. A run that ends in MetadataError or ConfigError has written
\* nothing: the destination is as the run found it.
PreWriteFailure ==
    (status = "failed" /\ err \in {"MetadataError", "ConfigError"}) => store = prior

====
